---- MODULE Spec2Model ----
(***************************************************************************)
(* Model of families.py: one batch run of create_kml_files over the rows   *)
(* of the input CSV, merged with the placemarks parsed from the previous   *)
(* output file, and (for the re-run property) a second run over the file   *)
(* the first run wrote.                                                    *)
(*                                                                         *)
(* Text is modelled as a sequence of characters where the code looks      *)
(* inside it (names, ranks, style ids, styleUrl); an address is an opaque  *)
(* string (the code only tests it for emptiness and hands it to the        *)
(* geocoder); a coordinate is named by its decimal text, which is one      *)
(* token of the <coordinates> text.  Region, Phone and Website only feed   *)
(* the description block, which no decision of the run reads; they are not *)
(* modelled.                                                               *)
(***************************************************************************)
EXTENDS Integers, Sequences, FiniteSets, TLC

VARIABLES
    rows,                 \* the rows csv.DictReader yields, in file order
    file,                 \* content of the file at output_preferred
    pc,                   \* position of create_kml_files
    i,                    \* index of the row the loop is at (enumerate(reader, 1))
    existing_locations,   \* the mapping parse_existing_kml returned
    preferred_placemarks, \* the placemarks collected for the output
    calls,                \* history: geocode_address calls issued per row, this run
    absent,               \* history: rows whose geocode_address call returned None
    origin,               \* history: for each collected placemark, the row and path that made it
    sinceSleep,           \* history: geocode_address calls issued since the last time.sleep(1)
    writes,               \* history: number of times the output file was opened for writing
    file0,                \* history: content of the output file when the run started
    run,                  \* 1 for the first run, 2 for the re-run over its output
    out1,                 \* history: the file the first run wrote
    made1                 \* history: the rows that produced an entry in the first run

vars == <<rows, file, pc, i, existing_locations, preferred_placemarks, calls,
          absent, origin, sinceSleep, writes, file0, run, out1, made1>>

----------------------------------------------------------------------------
(* Bounds of the model *)

MaxRows == 2

MaxPrior == 1

----------------------------------------------------------------------------
(* Text *)

Str_preferred == <<"p", "r", "e", "f", "e", "r", "r", "e", "d">>

Str_other == <<"o", "t", "h", "e", "r">>

Str_Preferred == <<"P", "r", "e", "f", "e", "r", "r", "e", "d">>

Str_Other == <<"O", "t", "h", "e", "r">>

UpperCase == <<"A", "B", "C", "D", "E", "F", "G", "H", "I", "J", "K", "L", "M",
               "N", "O", "P", "Q", "R", "S", "T", "U", "V", "W", "X", "Y", "Z">>

LowerCase == <<"a", "b", "c", "d", "e", "f", "g", "h", "i", "j", "k", "l", "m",
               "n", "o", "p", "q", "r", "s", "t", "u", "v", "w", "x", "y", "z">>

\* the lower-case letter of each upper-case letter
ToLower ==
    [c \in { UpperCase[u] : u \in 1..26 } |->
        LowerCase[CHOOSE u \in 1..26 : UpperCase[u] = c]]

\* str.lower()
lower(s) == [k \in 1..Len(s) |-> IF s[k] \in DOMAIN ToLower THEN ToLower[s[k]] ELSE s[k]]

\* needle in hay
contains(hay, needle) ==
    \E k \in 0..(Len(hay) - Len(needle)) :
        SubSeq(hay, k + 1, k + Len(needle)) = needle

\* s.replace(c, '') for a one-character c
replace(s, c) == SelectSeq(s, LAMBDA x : x # c)

----------------------------------------------------------------------------
(* Inputs *)

None == <<>>

Organizations == { <<"A">>, <<"B">>, <<"R", "&", "D">> }

Addresses == { "", "1 Main St", "2 Oak Ave" }

\* a single run only tests an address for emptiness: one non-empty address
\* stands for all of them there
OneAddress == { "", "1 Main St" }

LocationRanks == { Str_Preferred, Str_Other }

RowValues(addresses) ==
    [Organization : Organizations, Address : addresses, LocationRank : LocationRanks]

\* what the geocoding service answers for an address when it answers
Mapbox(address) == IF address = "1 Main St" THEN <<"-122.4", "37.8">> ELSE <<"-71.1", "42.3">>

Coordinates == { Mapbox(a) : a \in Addresses \ {""} }

\* placemarks a previous output file may hold; styleUrl may be missing.  A
\* file with a name that is not XML character data does not parse: it is one
\* of the files that are not well-formed
PriorPlacemarks ==
    [name : { <<"A">> }, styleUrl : { <<"#">> \o Str_preferred, <<"#">> \o Str_other },
     coordinates : { <<c[1], ",", c[2]>> : c \in Coordinates }]
    \cup [name : { <<"A">> }, coordinates : { <<c[1], ",", c[2]>> : c \in Coordinates }]

SeqsUpTo(S, n) == UNION { [1..k -> S] : k \in 0..n }

PriorFiles ==
    { [tag |-> "missing"], [tag |-> "garbage"] }
    \cup { [tag |-> "kml", placemarks |-> p] : p \in SeqsUpTo(PriorPlacemarks, MaxPrior) }

----------------------------------------------------------------------------
(* create_placemark, create_kml_header + footer, parse_existing_kml *)

style_id(row) ==
    IF contains(lower(row.LocationRank), Str_preferred) THEN Str_preferred ELSE Str_other

create_placemark(row, coords) ==
    [name        |-> row.Organization,
     styleUrl    |-> <<"#">> \o style_id(row),
     coordinates |-> <<coords[1], ",", coords[2]>>]

\* header, the collected placemarks, footer
Document(placemarks) == [tag |-> "kml", placemarks |-> placemarks]

\* character data the XML parser accepts: no bare markup character
XmlText(s) == \A k \in 1..Len(s) : s[k] \notin {"&", "<"}

\* ET.parse succeeds
WellFormed(f) ==
    /\ f.tag = "kml"
    /\ \A k \in 1..Len(f.placemarks) : XmlText(f.placemarks[k].name)

EmptyMap == [n \in {} |-> {}]

Put(m, key, value) == [n \in DOMAIN m \cup {key} |-> IF n = key THEN value ELSE m[n]]

\* text.split(',')
split(text) ==
    LET commas == { k \in 1..Len(text) : text[k] = "," }
        cuts   == {0} \cup commas \cup {Len(text) + 1}
        RECURSIVE pieces(_)
        pieces(from) ==
            LET to == CHOOSE c \in cuts : c > from /\ \A d \in cuts : d > from => c <= d
            IN  IF to > Len(text) THEN << SubSeq(text, from + 1, Len(text)) >>
                ELSE << SubSeq(text, from + 1, to - 1) >> \o pieces(to)
    IN  pieces(0)

\* float(piece) of a piece of the coordinates text that is one number
float(piece) == piece[1]

ParsedLocation(placemark) ==
    LET coords == split(placemark.coordinates)
    IN  [style       |-> IF "styleUrl" \in DOMAIN placemark
                         THEN replace(placemark.styleUrl, "#") ELSE Str_other,
         coordinates |-> <<float(coords[1]), float(coords[2])>>]

RECURSIVE Locations(_, _)
Locations(placemarks, locations) ==
    IF placemarks = <<>> THEN locations
    ELSE Locations(Tail(placemarks),
                   Put(locations, Head(placemarks).name, ParsedLocation(Head(placemarks))))

parse_existing_kml(f) ==
    IF f.tag = "missing" THEN EmptyMap
    ELSE IF ~WellFormed(f) THEN EmptyMap
    ELSE Locations(f.placemarks, EmptyMap)

----------------------------------------------------------------------------
(* should_update_location and the row decisions of create_kml_files *)

current_style(row) ==
    IF contains(lower(row.LocationRank), Str_preferred) THEN Str_preferred ELSE Str_other

should_update_location(row, existing_location) ==
    current_style(row) # existing_location.style

\* a run that does not skip the rows without an address
NoAddress_never(row) == FALSE

NoAddress(row) == row.Address = ""

\* existing_location and not should_update_location(row, existing_location)
UseExisting(row) ==
    /\ row.Organization \in DOMAIN existing_locations
    /\ ~should_update_location(row, existing_locations[row.Organization])

\* the row create_placemark is given on the reuse and fallback paths
ExistingRow(row, existing_location) ==
    [Organization |-> row.Organization,
     Address      |-> row.Address,
     LocationRank |-> IF existing_location.style = Str_preferred
                      THEN Str_Preferred ELSE Str_Other]

\* a run that files every geocoded row as preferred
Status_always(row) == "PREFERRED"

\* the status of a geocoded row
Status(row) ==
    IF contains(lower(row.LocationRank), Str_preferred) THEN "PREFERRED" ELSE "OTHER"

\* a run that leaves the loop one row early
AllRowsRead_early == i >= Len(rows)

AllRowsRead == i > Len(rows)

Collect(row, coords, path) ==
    /\ preferred_placemarks' = Append(preferred_placemarks, create_placemark(row, coords))
    /\ origin' = Append(origin, [row |-> i, path |-> path, coords |-> coords,
                                  style |-> style_id(row)])

----------------------------------------------------------------------------
(* create_kml_files *)

Start ==
    /\ file \in PriorFiles
    /\ pc = "start"
    /\ i = 1
    /\ existing_locations = EmptyMap
    /\ preferred_placemarks = <<>>
    /\ calls = [r \in 1..Len(rows) |-> 0]
    /\ absent = {}
    /\ origin = <<>>
    /\ sinceSleep = 0
    /\ writes = 0
    /\ file0 = file
    /\ run = 1
    /\ out1 = [tag |-> "missing"]
    /\ made1 = {}

Init ==
    /\ rows \in SeqsUpTo(RowValues(OneAddress), MaxRows)
    /\ Start

\* the inputs of the run that is repeated: addresses the service tells apart
InitRerun ==
    /\ rows \in SeqsUpTo(RowValues(Addresses), MaxRows)
    /\ Start

\* existing_preferred = parse_existing_kml(output_preferred)
ParseExisting ==
    /\ pc = "start"
    /\ existing_locations' = parse_existing_kml(file)
    /\ pc' = "loop"
    /\ UNCHANGED <<rows, file, i, preferred_placemarks, calls, absent, origin,
                   sinceSleep, writes, file0, run, out1, made1>>

\* if not row['Address']: continue
SkipRow ==
    /\ pc = "loop"
    /\ ~AllRowsRead
    /\ NoAddress(rows[i])
    /\ i' = i + 1
    /\ UNCHANGED <<rows, file, pc, existing_locations, preferred_placemarks, calls,
                   absent, origin, sinceSleep, writes, file0, run, out1, made1>>

\* the row's classification is the one on record: reuse the prior coordinates;
\* other_placemarks is not defined, so appending to it raises NameError
ReuseRow ==
    /\ pc = "loop"
    /\ ~AllRowsRead
    /\ ~NoAddress(rows[i])
    /\ UseExisting(rows[i])
    /\ LET existing_location == existing_locations[rows[i].Organization]
       IN  IF existing_location.style = Str_preferred
           THEN /\ Collect(ExistingRow(rows[i], existing_location),
                           existing_location.coordinates, "reuse")
                /\ i' = i + 1
                /\ pc' = pc
           ELSE /\ pc' = "NameError"
                /\ UNCHANGED <<i, preferred_placemarks, origin>>
    /\ UNCHANGED <<rows, file, existing_locations, calls, absent, sinceSleep,
                   writes, file0, run, out1, made1>>

\* coords = geocode_address(row['Address']): the request goes out
CallGeocode ==
    /\ pc = "loop"
    /\ ~AllRowsRead
    /\ ~NoAddress(rows[i])
    /\ ~UseExisting(rows[i])
    /\ pc' = "geocoding"
    /\ calls' = [calls EXCEPT ![i] = @ + 1]
    /\ sinceSleep' = sinceSleep + 1
    /\ UNCHANGED <<rows, file, i, existing_locations, preferred_placemarks, absent,
                   origin, writes, file0, run, out1, made1>>

\* a run that goes on to the next row without pausing when geocoding failed
AfterGeocode_skip(coords) == IF coords = None THEN "loop" ELSE "sleep"

\* where the loop goes once the geocoded row is handled: time.sleep(1) closes
\* the loop body on every path
AfterGeocode(coords) == "sleep"

\* geocode_address returned coords: lines 182-207
HandleGeocode(coords) ==
    /\ pc = "geocoding"
    /\ absent' = IF coords = None THEN absent \cup {i} ELSE absent
    /\ IF coords # None
       THEN /\ IF Status(rows[i]) = "PREFERRED"
               THEN Collect(rows[i], coords, "geocode")
               ELSE UNCHANGED <<preferred_placemarks, origin>>
            /\ pc' = AfterGeocode(coords)
       ELSE IF rows[i].Organization \in DOMAIN existing_locations
            THEN LET existing_location == existing_locations[rows[i].Organization]
                 IN  IF existing_location.style = Str_preferred
                     THEN /\ Collect(ExistingRow(rows[i], existing_location),
                                     existing_location.coordinates, "fallback")
                          /\ pc' = AfterGeocode(coords)
                     ELSE /\ pc' = "NameError"
                          /\ UNCHANGED <<preferred_placemarks, origin>>
            ELSE /\ pc' = AfterGeocode(coords)
                 /\ UNCHANGED <<preferred_placemarks, origin>>
    /\ i' = IF pc' = "loop" THEN i + 1 ELSE i
    /\ UNCHANGED <<rows, file, existing_locations, calls, sinceSleep, writes,
                   file0, run, out1, made1>>

\* the service answers anything, or nothing
GeocodeReturn == \E coords \in Coordinates \cup {None} : HandleGeocode(coords)

\* the service answers, and the same for the same address
GeocodeSucceeds == HandleGeocode(Mapbox(rows[i].Address))

\* time.sleep(1), then the next row
Sleep ==
    /\ pc = "sleep"
    /\ sinceSleep' = 0
    /\ i' = i + 1
    /\ pc' = "loop"
    /\ UNCHANGED <<rows, file, existing_locations, preferred_placemarks, calls,
                   absent, origin, writes, file0, run, out1, made1>>

\* with open(output_preferred, 'w'): header, placemarks, footer
WriteOutput ==
    /\ pc = "loop"
    /\ AllRowsRead
    /\ file' = Document(preferred_placemarks)
    /\ writes' = writes + 1
    /\ pc' = "done"
    /\ UNCHANGED <<rows, i, existing_locations, preferred_placemarks, calls, absent,
                   origin, sinceSleep, file0, run, out1, made1>>

\* create_kml_files is run again on the same csv_file and output_preferred
Rerun ==
    /\ pc = "done"
    /\ run = 1
    /\ run' = 2
    /\ out1' = file
    /\ made1' = { origin[k].row : k \in 1..Len(origin) }
    /\ pc' = "start"
    /\ i' = 1
    /\ existing_locations' = EmptyMap
    /\ preferred_placemarks' = <<>>
    /\ calls' = [r \in 1..Len(rows) |-> 0]
    /\ absent' = {}
    /\ origin' = <<>>
    /\ sinceSleep' = 0
    /\ writes' = 0
    /\ file0' = file
    /\ UNCHANGED <<rows, file>>

Next ==
    \/ ParseExisting
    \/ SkipRow
    \/ ReuseRow
    \/ CallGeocode
    \/ GeocodeReturn
    \/ Sleep
    \/ WriteOutput

Spec == Init /\ [][Next]_vars

NextRerun ==
    \/ ParseExisting
    \/ SkipRow
    \/ ReuseRow
    \/ CallGeocode
    \/ GeocodeSucceeds
    \/ Sleep
    \/ WriteOutput
    \/ Rerun

SpecRerun == InitRerun /\ [][NextRerun]_vars

----------------------------------------------------------------------------
(* Properties *)

\* the classification of a rank text: preferred or other
Classification(rank) ==
    IF contains(lower(rank), Str_preferred) THEN Str_preferred ELSE Str_other

\* the collected placemarks row r produced
EntriesOf(r) == { k \in 1..Len(origin) : origin[k].row = r }

Terminated == pc \in {"done", "NameError"}

\* the loop is through with row r
Handled(r) == r < i \/ (r = i /\ pc \in {"sleep", "NameError"})

\* row r has an address and its classification is the one on record
Unchanged(r) ==
    /\ rows[r].Address # ""
    /\ rows[r].Organization \in DOMAIN existing_locations
    /\ Classification(rows[r].LocationRank) = existing_locations[rows[r].Organization].style

\* row r has an address and no record, or a record of the other classification
NewOrChanged(r) ==
    /\ rows[r].Address # ""
    /\ \/ rows[r].Organization \notin DOMAIN existing_locations
       \/ Classification(rows[r].LocationRank) # existing_locations[rows[r].Organization].style

\* C1: every row the loop is through with, whose address is not empty and
\* whose classification equals the style of the prior entry of its
\* organization (preferred or other), has produced an entry with exactly the
\* prior coordinates, and no geocode_address call was issued for it.
C1_ReuseKeepsPriorCoordinates ==
    pc # "start" =>
        \A r \in 1..Len(rows) :
            (Handled(r) /\ Unchanged(r)) =>
                /\ \E k \in EntriesOf(r) :
                       origin[k].coords = existing_locations[rows[r].Organization].coordinates
                /\ calls[r] = 0

\* C2: no error aborts the batch: the run never stops on an exception before
\* the step that writes the output file.
C2_NoErrorAbortsBatch == pc # "NameError"

\* C3: when the run has ended, geocode_address was called exactly once for
\* every row with a non-empty address whose organization has no prior entry
\* or a prior entry of another style.
C3_GeocodedExactlyOnce ==
    Terminated =>
        \A r \in 1..Len(rows) : NewOrChanged(r) => calls[r] = 1

\* C4: a row whose geocode_address call returned None has produced exactly
\* one entry, with the prior coordinates, when its organization has a prior
\* entry, and no entry otherwise; and the run goes on to the next row.
C4_AbsentFallsBackOrDrops ==
    \A r \in absent :
        /\ rows[r].Organization \in DOMAIN existing_locations =>
               /\ Cardinality(EntriesOf(r)) = 1
               /\ \A k \in EntriesOf(r) :
                      origin[k].coords = existing_locations[rows[r].Organization].coordinates
        /\ rows[r].Organization \notin DOMAIN existing_locations => EntriesOf(r) = {}
        /\ ~(pc = "NameError" /\ i = r)

\* C5 as stated: every entry of the written output file comes from a row
\* whose Location Rank contains "preferred"; a row classified other never
\* yields an entry of the output file.
C5_OnlyPreferredRowsWritten ==
    pc = "done" =>
        /\ file = Document(preferred_placemarks)
        /\ \A k \in 1..Len(origin) :
               Classification(rows[origin[k].row].LocationRank) = Str_preferred

\* C5 amended: every entry of the written output file has style preferred;
\* it comes from a row whose Location Rank contains "preferred", or from a
\* row classified other whose geocode_address call returned None and whose
\* organization has a prior entry of style preferred (the fallback, which
\* keeps the prior style and coordinates).
C5_OnlyPreferredStyleWritten ==
    /\ pc = "done" => file = Document(preferred_placemarks)
    /\ Len(origin) = Len(preferred_placemarks)
    /\ \A k \in 1..Len(origin) :
           LET row == rows[origin[k].row]
           IN  /\ preferred_placemarks[k].styleUrl = <<"#">> \o Str_preferred
               /\ \/ Classification(row.LocationRank) = Str_preferred
                  \/ /\ origin[k].row \in absent
                     /\ row.Organization \in DOMAIN existing_locations
                     /\ existing_locations[row.Organization].style = Str_preferred
                     /\ preferred_placemarks[k].coordinates =
                            LET c == existing_locations[row.Organization].coordinates
                            IN  <<c[1], ",", c[2]>>

\* a run that wrote the entry of a row classified other, made on the fallback
C5_Witness ==
    /\ pc = "done"
    /\ \E k \in 1..Len(origin) :
           /\ Classification(rows[origin[k].row].LocationRank) = Str_other
           /\ origin[k].path = "fallback"
           /\ file.placemarks[k].name = rows[origin[k].row].Organization

\* C6 as stated: the written output holds no entry named with the
\* organization of a row whose address is empty.
C6_NoEntryNamedLikeEmptyAddressRow ==
    pc = "done" =>
        \A r \in 1..Len(rows) :
            rows[r].Address = "" =>
                \A k \in 1..Len(file.placemarks) :
                    file.placemarks[k].name # rows[r].Organization

\* C6 amended: a row whose address is empty produces no entry and no
\* geocode_address call, whatever the prior output holds; an entry of the
\* written output named with its organization was produced by another row
\* of that organization whose address is not empty.
C6_EmptyAddressRowProducesNothing ==
    \A r \in 1..Len(rows) :
        rows[r].Address = "" =>
            /\ calls[r] = 0
            /\ EntriesOf(r) = {}
            /\ pc = "done" =>
                   /\ Len(file.placemarks) = Len(origin)
                   /\ \A k \in 1..Len(file.placemarks) :
                          file.placemarks[k].name = rows[r].Organization =>
                              /\ origin[k].row # r
                              /\ rows[origin[k].row].Address # ""
                              /\ rows[origin[k].row].Organization = rows[r].Organization

\* a finished run with an empty-address row whose organization is on record,
\* and an entry of that name written for another row
C6_Witness ==
    /\ pc = "done"
    /\ \E r \in 1..Len(rows) :
           /\ rows[r].Address = ""
           /\ rows[r].Organization \in DOMAIN existing_locations
           /\ \E k \in 1..Len(file.placemarks) :
                  file.placemarks[k].name = rows[r].Organization

\* C7: parsing the document a run wrote gives a mapping that holds, for
\* every written entry, its name with the coordinates and the classification
\* that were written.
C7_RoundTrip ==
    pc = "done" =>
        LET locations == parse_existing_kml(file)
        IN  \A k \in 1..Len(origin) :
                LET name == rows[origin[k].row].Organization
                IN  /\ name \in DOMAIN locations
                    /\ locations[name].coordinates = origin[k].coords
                    /\ locations[name].style = origin[k].style

\* C8: the output file keeps the content it had when the run started until
\* every row has been processed; it is then written once, whole; a run that
\* stopped earlier leaves the previous content.
C8_OutputWrittenOnceAtEnd ==
    /\ pc # "done" => (file = file0 /\ writes = 0)
    /\ pc = "done" =>
           /\ writes = 1
           /\ i = Len(rows) + 1
           /\ file = Document(preferred_placemarks)

\* a finished run that replaced a previous document holding an entry by
\* another content
C8_Witness ==
    /\ pc = "done"
    /\ writes = 1
    /\ file0.tag = "kml"
    /\ file0.placemarks # <<>>
    /\ file # file0
    /\ Len(rows) = MaxRows

\* C9: never are two geocode_address calls issued without a time.sleep(1)
\* between them, and a call is in flight only as the single call since the
\* last pause.
C9_PauseBetweenCalls ==
    /\ sinceSleep <= 1
    /\ pc = "geocoding" => sinceSleep = 1
    /\ pc = "loop" => sinceSleep = 0

\* a second call is in flight after a call that failed
C9_Witness ==
    /\ pc = "geocoding"
    /\ \E r \in absent : r < i /\ calls[r] = 1

\* C10: the re-run over the first run's output writes the same document and
\* issues no geocode_address call for a row that produced an entry in the
\* first run.
C10_RerunIdempotent ==
    (run = 2 /\ pc = "done") =>
        /\ file = out1
        /\ \A r \in made1 : calls[r] = 0

====
